---- MODULE Spec2Model ----
(***************************************************************************)
(* Behaviour arbitration of the heat-seeking Roomba controller             *)
(* (src/code.py): the feed handler handle_roomba_steering, the sensor      *)
(* queries detect_human and obstacle_detected, and the main loop with its  *)
(* except handler.  Time is counted in tenths of a second.                 *)
(***************************************************************************)
EXTENDS Integers, Sequences, FiniteSets, TLC

\* ------------------------------------------------------------------------
\* Bounds of the model
\* ------------------------------------------------------------------------
\* The clock is not advanced beyond MaxTime (tenths of a second).
MaxTime == 152
\* At most MaxBatch messages are dispatched by one io.loop() call.
MaxBatch == 1

\* ------------------------------------------------------------------------
\* Program constants
\* ------------------------------------------------------------------------
\* Python's None for search_start_time (a timestamp is never negative).
None == -1
\* detect_human(threshold=24.0)
HumanThreshold == 24
\* obstacle_detected(threshold_mm=40)
ObstacleThreshold == 40
\* time.monotonic() - search_start_time > 10, in tenths of a second
SearchTimeout == 100
\* time.sleep(0.2) in the search branch
SearchSleep == 2
\* time.sleep(0.1) at the end of the iteration
LoopSleep == 1
\* time.sleep(5) in the except handler
CoolDown == 50
\* time.sleep(0.1), twice, in initialize_roomba
WakeSleep == 1

\* ------------------------------------------------------------------------
\* Inputs
\* ------------------------------------------------------------------------
Recognized == {"forward", "backward", "left", "right", "stop",
               "search_left", "search_right", "seek_forward"}
ManualCommands == {"forward", "backward", "left", "right"}
SearchCommands == {"search_left", "search_right"}
\* Payloads the feed can deliver: the vocabulary and some strings outside it.
Payloads == Recognized \cup {"STOP", "spin"}
\* Time a message takes to arrive inside io.loop(), in tenths of a second.
MsgDelays == {0}
\* Time io.loop() blocks before it returns, in tenths of a second.
PollDelays == {47, 48}
\* Time io.loop() runs before it raises, in tenths of a second.
FaultDelays == {0, 1}
\* The clock at the first io.loop(): the boot sleeps, or a little more.
BootClocks == {2 * WakeSleep, 2 * WakeSleep + 1}
\* The access of obstacle_detected that raises, if one does.
RangeFaults == {"none", "data_ready", "distance", "clear_interrupt"}
\* Thermal frames of amg.pixels (rows of temperatures), cut down to 1 x 2.
Temps == {23, 24}
PixelFrames == {<<<<a, b>>>> : a \in Temps, b \in Temps}
\* vl53.distance: None for an invalid range, else a sample.
Distances == {None, 0, 40, 41}

VARIABLES
    searching_left,     \* global flag, line 80
    searching_right,    \* global flag, line 81
    seeking_forward,    \* global flag, line 82
    search_start_time,  \* None or the clock at the last search command
    search_direction,   \* "None", "left" or "right"
    now,                \* time.monotonic()
    vl53_ready,         \* vl53.data_ready: a sample waits, interrupt not cleared
    vl53_distance,      \* vl53.distance of that sample
    pc,                 \* "loop": at io.loop(); "except"; "exited"
    batch,              \* messages dispatched by the current io.loop() call
    trace,              \* what the last step did, in order
    last,               \* the last step: its kind, its inputs, the flags before it
    transitions,        \* changes of the flags in the current loop iteration
    alerts,             \* chimes played since the last recognized command
    search_cmd_time,    \* the clock when the last search command was handled
    superseded,         \* the start time of the search a command last replaced
    faults,             \* loop iterations in a row that ended in the except handler
    last_cmd,           \* the last recognized payload handled, "" before the first
    last_motion         \* the last motion frame sent

vars == <<searching_left, searching_right, seeking_forward, search_start_time,
          search_direction, now, vl53_ready, vl53_distance, pc, batch, trace, last,
          transitions, alerts, search_cmd_time, superseded, faults, last_cmd,
          last_motion>>

\* ------------------------------------------------------------------------
\* Motion command encoder (lines 18-22, 88-101)
\* ------------------------------------------------------------------------
\* send_command(opcode, data): the bytes handed to uart.write.
send_command(opcode, data) == [k |-> "uart", v |-> <<opcode>> \o data]

drive_left == send_command(137, <<0, 100, 0, 1>>)
drive_right == send_command(137, <<0, 100, 255, 255>>)
drive_forward == send_command(137, <<0, 200, 128, 0>>)
drive_backward == send_command(137, <<255, 56, 128, 0>>)
stop == send_command(137, <<0, 0, 128, 0>>)

\* The two chimes of the main loop: define a song, then play it.
found_alert == <<send_command(140, <<1, 2, 76, 32, 72, 32>>), send_command(141, <<1>>)>>
success_alert == <<send_command(140, <<2, 3, 72, 32, 76, 32, 79, 32>>),
                   send_command(141, <<2>>)>>

\* The chime played when the Wi-Fi is connected (lines 57-58).
wifi_chime == <<send_command(140, <<0, 2, 72, 32, 76, 32>>), send_command(141, <<0>>)>>

\* Other effects recorded in the trace.
Sleep(d) == [k |-> "sleep", v |-> <<d>>]
Reconnect == [k |-> "reconnect", v |-> <<>>]
ReadPixels == [k |-> "amg.pixels", v |-> <<>>]
ReadReady == [k |-> "vl53.data_ready", v |-> <<>>]
ReadDistance == [k |-> "vl53.distance", v |-> <<>>]
ClearInterrupt == [k |-> "vl53.clear_interrupt", v |-> <<>>]
Raised == [k |-> "raise", v |-> <<>>]

\* initialize_roomba (lines 25-35): start, safe mode and a test beep.
initialize_roomba ==
    <<send_command(128, <<>>), Sleep(WakeSleep), send_command(131, <<>>),
      Sleep(WakeSleep), send_command(140, <<3, 1, 64, 16>>), send_command(141, <<3>>)>>

\* What the module sends and sleeps on its way to the main loop (lines
\* 57-61, 199): the boot stop comes last.
boot == wifi_chime \o initialize_roomba \o <<stop>>

\* ------------------------------------------------------------------------
\* Sensor queries (lines 104-118)
\* ------------------------------------------------------------------------
\* detect_human: some cell of some row is at or above the threshold.
detect_human(pixels) ==
    \E r \in 1..Len(pixels) : \E c \in 1..Len(pixels[r]) :
        pixels[r][c] >= HumanThreshold

\* Python truth of a number or None: None and 0 are false.
Truthy(x) == x # None /\ x # 0

\* obstacle_detected on a sensor with the given data_ready and distance:
\* the result, whether clear_interrupt was called, and the calls made.
obstacle_detected(ready, dist) ==
    IF ready
    THEN IF Truthy(dist) /\ dist <= ObstacleThreshold
         THEN [result |-> TRUE, cleared |-> TRUE,
               calls |-> <<ReadReady, ReadDistance, ClearInterrupt>>]
         ELSE [result |-> FALSE, cleared |-> FALSE,
               calls |-> <<ReadReady, ReadDistance>>]
    ELSE [result |-> FALSE, cleared |-> FALSE, calls |-> <<ReadReady>>]

\* ------------------------------------------------------------------------
\* The globals as one record, and the feed handler (lines 121-178)
\* ------------------------------------------------------------------------
Globals == [sl |-> searching_left, sr |-> searching_right, sf |-> seeking_forward,
            start |-> search_start_time, dir |-> search_direction]

\* The three flags, as the last step found them.
Flags == <<searching_left, searching_right, seeking_forward>>

FlagsOf(g) == <<g.sl, g.sr, g.sf>>

\* The record kept of a step: what ran, the payload it handled, the flags it
\* found, the clock it read, what the sensor queries returned (FALSE when not
\* made), the messages already dispatched in the iteration, the number of
\* times it changed the flags, and the kind of the step before it.
Step(act, payload, pre, t, human, obstacle, msgs, changes) ==
    [act |-> act, payload |-> payload, pre |-> pre, t |-> t, human |-> human,
     obstacle |-> obstacle, msgs |-> msgs, changes |-> changes,
     after |-> last.act]

\* Number of occurrences of e in seq.
RECURSIVE Count(_, _)
Count(seq, e) ==
    IF seq = <<>> THEN 0
    ELSE (IF Head(seq) = e THEN 1 ELSE 0) + Count(Tail(seq), e)

Differ(a, b) == IF a = b THEN 0 ELSE 1

\* First position of e in seq, 0 when absent.
Index(seq, e) ==
    IF \E i \in 1..Len(seq) : seq[i] = e
    THEN CHOOSE i \in 1..Len(seq) : seq[i] = e /\ \A j \in 1..(i - 1) : seq[j] # e
    ELSE 0

\* The last motion frame (opcode 137) of seq, or prev when it holds none.
LastMotion(seq, prev) ==
    LET m == SelectSeq(seq, LAMBDA e : e.k = "uart" /\ e.v[1] = 137)
    IN IF m = <<>> THEN prev ELSE m[Len(m)]

ManualFrame(payload) ==
    CASE payload = "forward" -> drive_forward
      [] payload = "backward" -> drive_backward
      [] payload = "left" -> drive_left
      [] payload = "right" -> drive_right

\* The branches of handle_roomba_steering on globals g: the globals
\* afterwards and the frames sent.
\* forward, backward, left, right (lines 127-153)
\* Variant: the new drive frame is sent without braking first.
on_manual_no_brake(g, payload) ==
    [g |-> [g EXCEPT !.sl = FALSE, !.sr = FALSE, !.sf = FALSE],
     out |-> <<ManualFrame(payload)>>]

on_manual(g, payload) ==
    [g |-> [g EXCEPT !.sl = FALSE, !.sr = FALSE, !.sf = FALSE],
     out |-> <<stop, ManualFrame(payload)>>]

\* stop (lines 155-159)
\* Variant: the stop frame is sent only when a behaviour was running.
on_stop_only_when_active(g) ==
    [g |-> [g EXCEPT !.sl = FALSE, !.sr = FALSE, !.sf = FALSE],
     out |-> IF g.sl \/ g.sr \/ g.sf THEN <<stop>> ELSE <<>>]

on_stop(g) ==
    [g |-> [g EXCEPT !.sl = FALSE, !.sr = FALSE, !.sf = FALSE],
     out |-> <<stop>>]

\* search_left when time.monotonic() is t (lines 161-166)
\* Variant: a running search keeps its start time.
on_search_left_keeps_start(g, t) ==
    [g |-> [g EXCEPT !.sl = TRUE, !.sr = FALSE, !.sf = FALSE,
                     !.start = IF g.sl \/ g.sr THEN g.start ELSE t, !.dir = "left"],
     out |-> <<>>]

\* Variant: a running seek is not switched off.
on_search_left_keeps_seek(g, t) ==
    [g |-> [g EXCEPT !.sl = TRUE, !.sr = FALSE, !.start = t, !.dir = "left"],
     out |-> <<>>]

on_search_left(g, t) ==
    [g |-> [g EXCEPT !.sl = TRUE, !.sr = FALSE, !.sf = FALSE,
                     !.start = t, !.dir = "left"],
     out |-> <<>>]

\* search_right when time.monotonic() is t (lines 168-173)
\* Variant: a running seek is not switched off.
on_search_right_keeps_seek(g, t) ==
    [g |-> [g EXCEPT !.sl = FALSE, !.sr = TRUE, !.start = t, !.dir = "right"],
     out |-> <<>>]

\* Variant: search_right brakes before the search starts.
on_search_right_brakes(g, t) ==
    [g |-> [g EXCEPT !.sl = FALSE, !.sr = TRUE, !.sf = FALSE,
                     !.start = t, !.dir = "right"],
     out |-> <<stop>>]

on_search_right(g, t) ==
    [g |-> [g EXCEPT !.sl = FALSE, !.sr = TRUE, !.sf = FALSE,
                     !.start = t, !.dir = "right"],
     out |-> <<>>]

\* seek_forward (lines 175-178)
\* Variant: the handler starts the drive itself.
on_seek_forward_drives(g) ==
    [g |-> [g EXCEPT !.sl = FALSE, !.sr = FALSE, !.sf = TRUE],
     out |-> <<drive_forward>>]

on_seek_forward(g) ==
    [g |-> [g EXCEPT !.sl = FALSE, !.sr = FALSE, !.sf = TRUE],
     out |-> <<>>]

\* Any other payload: the if/elif chain has no else.
\* Variant: an unknown payload is taken for a stop.
on_other_stops(g) ==
    [g |-> [g EXCEPT !.sl = FALSE, !.sr = FALSE, !.sf = FALSE],
     out |-> <<stop>>]

on_other(g) == [g |-> g, out |-> <<>>]

\* handle_roomba_steering(client, feed_id, payload) when time.monotonic()
\* is t.
handle_roomba_steering(g, payload, t) ==
    IF payload \in ManualCommands THEN on_manual(g, payload)
    ELSE IF payload = "stop" THEN on_stop(g)
    ELSE IF payload = "search_left" THEN on_search_left(g, t)
    ELSE IF payload = "search_right" THEN on_search_right(g, t)
    ELSE IF payload = "seek_forward" THEN on_seek_forward(g)
    ELSE on_other(g)

SetGlobals(g) ==
    /\ searching_left' = g.sl
    /\ searching_right' = g.sr
    /\ seeking_forward' = g.sf
    /\ search_start_time' = g.start
    /\ search_direction' = g.dir

\* ------------------------------------------------------------------------
\* Initial state: the module has run down to the while loop (lines 1-200);
\* the boot stop is the last thing sent.  The reference point of
\* time.monotonic() is not defined, but the clock does not start after the
\* program does, so that at the first io.loop() it shows at least the two
\* sleeps of initialize_roomba, and more when connecting took time.
\* ------------------------------------------------------------------------
Init ==
    /\ searching_left = FALSE
    /\ searching_right = FALSE
    /\ seeking_forward = FALSE
    /\ search_start_time = None
    /\ search_direction = "None"
    /\ now \in BootClocks
    /\ vl53_ready = FALSE
    /\ vl53_distance = None
    /\ pc = "loop"
    /\ batch = 0
    /\ trace = boot
    /\ last = [act |-> "boot", payload |-> "", pre |-> Flags, t |-> now,
               human |-> FALSE, obstacle |-> FALSE, msgs |-> 0, changes |-> 0,
               after |-> ""]
    /\ transitions = 0
    /\ alerts = [found |-> 0, success |-> 0]
    /\ search_cmd_time = None
    /\ superseded = None
    /\ faults = 0
    /\ last_cmd = ""
    /\ last_motion = LastMotion(boot, stop)

\* ------------------------------------------------------------------------
\* The main loop (lines 203-245)
\* ------------------------------------------------------------------------
Cleared(g) == [g EXCEPT !.sl = FALSE, !.sr = FALSE]

\* A human is detected (lines 214-219).
\* Variant: the chime is played but the search is not ended.
on_human_keeps_searching(g) == [g |-> g, out |-> <<stop>> \o found_alert]

on_human(g) == [g |-> Cleared(g), out |-> <<stop>> \o found_alert]

\* The search has timed out (lines 224-227).
\* Variant: the timeout also forgets the start time and the direction.
on_timeout_drops_session(g) ==
    [g |-> [g EXCEPT !.sl = FALSE, !.sr = FALSE, !.start = None, !.dir = "None"],
     out |-> <<stop>>]

\* Variant: the timeout clears the flags and sends no stop.
on_timeout_no_stop(g) == [g |-> Cleared(g), out |-> <<>>]

on_timeout(g) == [g |-> Cleared(g), out |-> <<stop>>]

\* An obstacle is detected (lines 232-237).
\* Variant: the chime is played but the seek is not ended.
on_obstacle_keeps_seeking(g) == [g |-> g, out |-> <<stop>> \o success_alert]

on_obstacle(g) == [g |-> [g EXCEPT !.sf = FALSE], out |-> <<stop>> \o success_alert]

\* Variant of the search branch: the timeout check is the else of the
\* detection check.
search_branch_elif(g, t, pixels, pixfault) ==
    IF g.sl \/ g.sr
    THEN LET drive == (IF g.sl THEN <<drive_left>> ELSE <<>>) \o
                      (IF g.sr THEN <<drive_right>> ELSE <<>>) \o <<ReadPixels>>
         IN IF pixfault
            THEN [g |-> g, t |-> t, out |-> drive \o <<Raised>>, raised |-> TRUE,
                  human |-> FALSE]
            ELSE LET human == detect_human(pixels)
                     r1 == IF human THEN on_human(g) ELSE [g |-> g, out |-> <<>>]
                     t1 == t + SearchSleep
                     timeout == /\ ~human /\ Truthy(r1.g.start)
                                /\ t1 - r1.g.start > SearchTimeout
                     r2 == IF timeout THEN on_timeout(r1.g) ELSE [g |-> r1.g, out |-> <<>>]
                 IN [g |-> r2.g, t |-> t1,
                     out |-> drive \o r1.out \o <<Sleep(SearchSleep)>> \o r2.out,
                     raised |-> FALSE, human |-> human]
    ELSE [g |-> g, t |-> t, out |-> <<>>, raised |-> FALSE, human |-> FALSE]

\* Lines 207-227 on globals g at clock t.  pixels is the frame amg.pixels
\* returns, or the read raises when pixfault.
search_branch(g, t, pixels, pixfault) ==
    IF g.sl \/ g.sr
    THEN LET drive == (IF g.sl THEN <<drive_left>> ELSE <<>>) \o
                      (IF g.sr THEN <<drive_right>> ELSE <<>>) \o <<ReadPixels>>
         IN IF pixfault
            THEN [g |-> g, t |-> t, out |-> drive \o <<Raised>>, raised |-> TRUE,
                  human |-> FALSE]
            ELSE LET human == detect_human(pixels)
                     r1 == IF human THEN on_human(g) ELSE [g |-> g, out |-> <<>>]
                     t1 == t + SearchSleep
                     timeout == Truthy(r1.g.start) /\ t1 - r1.g.start > SearchTimeout
                     r2 == IF timeout THEN on_timeout(r1.g) ELSE [g |-> r1.g, out |-> <<>>]
                 IN [g |-> r2.g, t |-> t1,
                     out |-> drive \o r1.out \o <<Sleep(SearchSleep)>> \o r2.out,
                     raised |-> FALSE, human |-> human]
    ELSE [g |-> g, t |-> t, out |-> <<>>, raised |-> FALSE, human |-> FALSE]

\* The sensor access a fault point names.
FaultAccess(vlfault) ==
    CASE vlfault = "data_ready" -> ReadReady
      [] vlfault = "distance" -> ReadDistance
      [] vlfault = "clear_interrupt" -> ClearInterrupt
      [] OTHER -> Raised

\* Variant of the seek branch: an obstacle ends the seek and plays the chime
\* but no stop frame is sent.
seek_branch_no_stop(g, ready, dist, vlfault) ==
    IF g.sf
    THEN LET od == obstacle_detected(ready, dist)
             k == Index(od.calls, FaultAccess(vlfault))
             r == IF od.result THEN on_obstacle(g) ELSE [g |-> g, out |-> <<>>]
         IN IF k > 0
            THEN [g |-> g, cleared |-> FALSE,
                  out |-> <<drive_forward>> \o SubSeq(od.calls, 1, k) \o <<Raised>>,
                  raised |-> TRUE, obstacle |-> FALSE]
            ELSE [g |-> r.g, cleared |-> od.cleared,
                  out |-> <<drive_forward>> \o od.calls \o
                          SelectSeq(r.out, LAMBDA e : e # stop),
                  raised |-> FALSE, obstacle |-> od.result]
    ELSE [g |-> g, cleared |-> FALSE, out |-> <<>>, raised |-> FALSE,
          obstacle |-> FALSE]

\* Lines 229-237 on globals g with the sensor showing ready and dist.  Each
\* access obstacle_detected makes (data_ready, distance, clear_interrupt)
\* can raise: vlfault names the one that does, and the fault happens when
\* that access is made; nothing after it runs.
seek_branch(g, ready, dist, vlfault) ==
    IF g.sf
    THEN LET od == obstacle_detected(ready, dist)
             k == Index(od.calls, FaultAccess(vlfault))
             r == IF od.result THEN on_obstacle(g) ELSE [g |-> g, out |-> <<>>]
         IN IF k > 0
            THEN [g |-> g, cleared |-> FALSE,
                  out |-> <<drive_forward>> \o SubSeq(od.calls, 1, k) \o <<Raised>>,
                  raised |-> TRUE, obstacle |-> FALSE]
            ELSE [g |-> r.g, cleared |-> od.cleared,
                  out |-> <<drive_forward>> \o od.calls \o r.out,
                  raised |-> FALSE, obstacle |-> od.result]
    ELSE [g |-> g, cleared |-> FALSE, out |-> <<>>, raised |-> FALSE,
          obstacle |-> FALSE]

\* io.loop() waits d and dispatches one message to the feed handler.
PollMessage(payload, d) ==
    /\ pc = "loop"
    /\ batch < MaxBatch
    /\ now + d <= MaxTime
    /\ LET h == handle_roomba_steering(Globals, payload, now + d)
       IN /\ SetGlobals(h.g)
          /\ trace' = h.out
    /\ now' = now + d
    /\ batch' = batch + 1
    /\ LET h == handle_roomba_steering(Globals, payload, now + d)
           changes == Differ(Flags, FlagsOf(h.g))
       IN /\ last' = Step("message", payload, Flags, now + d, FALSE, FALSE, batch, changes)
          /\ transitions' = (IF batch = 0 THEN 0 ELSE transitions) + changes
    /\ alerts' = IF payload \in Recognized THEN [found |-> 0, success |-> 0] ELSE alerts
    /\ search_cmd_time' = IF payload \in SearchCommands THEN now + d ELSE search_cmd_time
    /\ superseded' = IF payload \in Recognized /\ (searching_left \/ searching_right)
                     THEN search_start_time ELSE superseded
    /\ last_cmd' = IF payload \in Recognized THEN payload ELSE last_cmd
    /\ last_motion' = LastMotion(handle_roomba_steering(Globals, payload, now + d).out,
                                 last_motion)
    /\ UNCHANGED <<vl53_ready, vl53_distance, pc, faults>>

\* io.loop() raises after waiting d.
PollFault(d) ==
    /\ pc = "loop"
    /\ now + d <= MaxTime
    /\ now' = now + d
    /\ pc' = "except"
    /\ trace' = <<Raised>>
    /\ last' = Step("pollfault", "", Flags, now + d, FALSE, FALSE, batch, 0)
    /\ transitions' = IF batch = 0 THEN 0 ELSE transitions
    /\ faults' = faults + 1
    /\ UNCHANGED <<alerts, search_cmd_time, superseded, last_cmd, last_motion>>
    /\ UNCHANGED <<searching_left, searching_right, seeking_forward,
                   search_start_time, search_direction, vl53_ready,
                   vl53_distance, batch>>

\* io.loop() returns after waiting d and the rest of the iteration runs
\* (lines 207-239).  arrival: the distance sensor has finished a new sample
\* dist since it was last looked at.
Iterate(d, pixels, pixfault, arrival, dist, vlfault) ==
    /\ pc = "loop"
    /\ now + d + SearchSleep + LoopSleep <= MaxTime
    /\ LET sb == search_branch(Globals, now + d, pixels, pixfault)
           ready == vl53_ready \/ arrival
           sample == IF arrival THEN dist ELSE vl53_distance
           kb == seek_branch(sb.g, ready, sample, vlfault)
       IN IF sb.raised
          THEN /\ SetGlobals(sb.g)
               /\ now' = sb.t
               /\ trace' = sb.out
               /\ pc' = "except"
               /\ UNCHANGED <<vl53_ready, vl53_distance, batch>>
          ELSE /\ SetGlobals(kb.g)
               /\ vl53_ready' = IF sb.g.sf THEN (ready /\ ~kb.cleared) ELSE vl53_ready
               /\ vl53_distance' = IF sb.g.sf THEN sample ELSE vl53_distance
               /\ IF kb.raised
                  THEN /\ now' = sb.t
                       /\ trace' = sb.out \o kb.out
                       /\ pc' = "except"
                       /\ batch' = batch
                  ELSE /\ now' = sb.t + LoopSleep
                       /\ trace' = sb.out \o kb.out \o <<Sleep(LoopSleep)>>
                       /\ pc' = "loop"
                       /\ batch' = 0
    /\ LET sb == search_branch(Globals, now + d, pixels, pixfault)
           kb == seek_branch(sb.g, vl53_ready \/ arrival,
                             IF arrival THEN dist ELSE vl53_distance, vlfault)
           g == IF sb.raised THEN sb.g ELSE kb.g
           out == IF sb.raised THEN sb.out ELSE sb.out \o kb.out
           changes == Differ(Flags, FlagsOf(sb.g)) + Differ(FlagsOf(sb.g), FlagsOf(g))
       IN /\ last' = Step("iterate", "", Flags, sb.t, sb.human,
                          ~sb.raised /\ kb.obstacle, batch, changes)
          /\ transitions' = (IF batch = 0 THEN 0 ELSE transitions) + changes
          /\ alerts' = [found |-> alerts.found + Count(out, found_alert[2]),
                        success |-> alerts.success + Count(out, success_alert[2])]
          /\ faults' = IF sb.raised \/ kb.raised THEN faults + 1 ELSE 0
          /\ last_motion' = LastMotion(out, last_motion)
    /\ UNCHANGED <<search_cmd_time, superseded, last_cmd>>

\* What the except handler does, in order (lines 243-245).
\* Variant: the stop comes after the cool-down and the reconnect.
except_handler_stop_last == <<Sleep(CoolDown), Reconnect, stop>>

\* Variant: the reconnect waits for the third fault in a row.
except_handler_counts_faults ==
    IF faults >= 3 THEN <<stop, Sleep(CoolDown), Reconnect>>
    ELSE <<stop, Sleep(CoolDown)>>

except_handler == <<stop, Sleep(CoolDown), Reconnect>>

\* Variant of the except handler: a recovery starts the search time afresh.
Recover_restarts_timer(reconnected) ==
    /\ pc = "except"
    /\ now + CoolDown <= MaxTime
    /\ now' = now + CoolDown
    /\ trace' = except_handler \o (IF reconnected THEN <<>> ELSE <<Raised>>)
    /\ pc' = IF reconnected THEN "loop" ELSE "exited"
    /\ batch' = 0
    /\ last' = Step("recover", "", Flags, now, FALSE, FALSE, 0, 0)
    /\ last_motion' = LastMotion(except_handler, last_motion)
    /\ search_start_time' = IF searching_left \/ searching_right
                            THEN now + CoolDown ELSE search_start_time
    /\ UNCHANGED <<transitions, alerts, search_cmd_time, superseded, faults, last_cmd>>
    /\ UNCHANGED <<searching_left, searching_right, seeking_forward,
                   search_direction, vl53_ready, vl53_distance>>

\* The except handler (lines 241-245): stop, sleep, reconnect; an exception
\* of io.reconnect() is not caught and ends the program.
Recover(reconnected) ==
    /\ pc = "except"
    /\ now + CoolDown <= MaxTime
    /\ now' = now + CoolDown
    /\ trace' = except_handler \o (IF reconnected THEN <<>> ELSE <<Raised>>)
    /\ pc' = IF reconnected THEN "loop" ELSE "exited"
    /\ batch' = 0
    /\ last' = Step("recover", "", Flags, now, FALSE, FALSE, 0, 0)
    /\ last_motion' = LastMotion(except_handler, last_motion)
    /\ UNCHANGED <<transitions, alerts, search_cmd_time, superseded, faults, last_cmd>>
    /\ UNCHANGED <<searching_left, searching_right, seeking_forward,
                   search_start_time, search_direction, vl53_ready, vl53_distance>>

\* The sensors are looked at only by the branch that queries them: a thermal
\* frame is drawn when a search runs, a distance sample when a seek runs.
NoFrame == <<>>
PixelInputs == IF searching_left \/ searching_right
               THEN [pixels : PixelFrames, fault : {FALSE}] \cup
                    [pixels : {NoFrame}, fault : {TRUE}]
               ELSE [pixels : {NoFrame}, fault : {FALSE}]
RangeInputs == IF seeking_forward
               THEN [arrival : {TRUE}, dist : Distances, fault : {"none"}] \cup
                    [arrival : {FALSE}, dist : {None}, fault : {"none", "data_ready"}] \cup
                    [arrival : {TRUE}, dist : {ObstacleThreshold},
                     fault : RangeFaults \ {"none", "data_ready"}]
               ELSE [arrival : {FALSE}, dist : {None}, fault : {"none"}]

Next ==
    \/ \E p \in Payloads, d \in MsgDelays : PollMessage(p, d)
    \/ \E d \in FaultDelays : PollFault(d)
    \/ \E d \in PollDelays, px \in PixelInputs, rg \in RangeInputs :
          Iterate(d, px.pixels, px.fault, rg.arrival, rg.dist, rg.fault)
    \/ \E reconnected \in BOOLEAN : Recover(reconnected)

Spec == Init /\ [][Next]_vars

\* ------------------------------------------------------------------------
\* Vocabulary of the properties
\* ------------------------------------------------------------------------
\* The frames of a trace, in order, and those that command a motion.
Frames(seq) == SelectSeq(seq, LAMBDA e : e.k = "uart")
MotionFrames(seq) == SelectSeq(seq, LAMBDA e : e.k = "uart" /\ e.v[1] = 137)
DriveFrames == {drive_left, drive_right, drive_forward, drive_backward}

Idle == <<FALSE, FALSE, FALSE>>
SearchLeft == <<TRUE, FALSE, FALSE>>
SearchRight == <<FALSE, TRUE, FALSE>>
SeekForward == <<FALSE, FALSE, TRUE>>

\* The last step was a loop iteration that ran to its end.
TickDone == last.act = "iterate" /\ pc = "loop"
\* ... and it started with a search, or with a seek, active.
SearchTick == TickDone /\ (last.pre[1] \/ last.pre[2])
SeekTick == TickDone /\ last.pre[3]
\* The stop of the timeout check: a stop after the search branch's sleep.
TimeoutStop(seq) ==
    \E i, j \in 1..Len(seq) : i < j /\ seq[i] = Sleep(SearchSleep) /\ seq[j] = stop

\* ------------------------------------------------------------------------
\* C1  Mutual exclusivity: in every reachable state at most one of
\* searching_left, searching_right, seeking_forward is true.
\* ------------------------------------------------------------------------
C1_MutualExclusion ==
    /\ ~(searching_left /\ searching_right)
    /\ ~(searching_left /\ seeking_forward)
    /\ ~(searching_right /\ seeking_forward)

\* A search command has just replaced an active seek.
C1_Witness ==
    /\ last.act = "message" /\ last.payload = "search_right"
    /\ last.pre = SeekForward
    /\ searching_right

\* ------------------------------------------------------------------------
\* C2  Brake-before-redirect: a manual command handled in any state sends
\* exactly the stop frame and then the drive frame of its direction, and
\* leaves the three flags false.
\* ------------------------------------------------------------------------
C2_BrakeBeforeRedirect ==
    (last.act = "message" /\ last.payload \in ManualCommands) =>
        /\ trace = <<stop,
                     CASE last.payload = "forward" -> send_command(137, <<0, 200, 128, 0>>)
                       [] last.payload = "backward" -> send_command(137, <<255, 56, 128, 0>>)
                       [] last.payload = "left" -> send_command(137, <<0, 100, 0, 1>>)
                       [] last.payload = "right" -> send_command(137, <<0, 100, 255, 255>>)>>
        /\ Flags = Idle

\* "backward" has just been handled while a left search was active.
C2_Witness ==
    /\ last.act = "message" /\ last.payload = "backward"
    /\ last.pre = SearchLeft
    /\ trace = <<stop, drive_backward>>

\* ------------------------------------------------------------------------
\* C3  Fault containment: a step that raises leads to the except handler,
\* whose first effect is the stop frame, before the cool-down and before the
\* reconnect; it sends no drive frame.
\* ------------------------------------------------------------------------
C3_FaultContainment ==
    [][/\ (trace' # <<>> /\ trace'[Len(trace')] = Raised /\ last'.act # "recover")
           => pc' = "except"
       /\ pc = "except" =>
           /\ trace[Len(trace)] = Raised
           /\ last'.act = "recover"
           /\ trace'[1] = stop
           /\ MotionFrames(trace') = <<stop>>
           /\ Index(trace', Sleep(CoolDown)) > 1
           /\ Index(trace', Reconnect) > Index(trace', Sleep(CoolDown))]_vars

\* The except handler has run after a fault during a right search.
C3_Witness ==
    /\ last.act = "recover"
    /\ last.pre = SearchRight
    /\ pc = "loop"

\* ------------------------------------------------------------------------
\* C4  Search success: a search tick on which detect_human() is true sends
\* stop and then the found chime once and ends with no flag set; between two
\* commands at most one found chime is played, and once it is played the
\* ticks that follow send no frame.
\* ------------------------------------------------------------------------
C4_SearchSuccess ==
    /\ (SearchTick /\ last.human) =>
           /\ Flags = Idle
           /\ Index(trace, stop) > 0
           /\ Index(trace, found_alert[1]) > Index(trace, stop)
           /\ Index(trace, found_alert[2]) = Index(trace, found_alert[1]) + 1
           /\ Count(trace, found_alert[1]) = 1
           /\ Count(trace, found_alert[2]) = 1
           /\ alerts.found = 1
    /\ alerts.found <= 1
    /\ alerts.found = 1 => ~searching_left /\ ~searching_right
    /\ (alerts.found = 1 /\ last.act = "iterate" /\ ~(last.pre[1] \/ last.pre[2]))
           => Frames(trace) = <<>>

\* A tick has run after the tick that found the human, with no command between.
C4_Witness ==
    /\ alerts.found = 1
    /\ TickDone /\ last.pre = Idle
    /\ search_direction = "left"

\* ------------------------------------------------------------------------
\* C5  Search timeout: on a search tick with detect_human() false, for every
\* recorded start time, the search goes on when the clock of the timeout
\* check is at most 10 s past the start and ends there with a stop frame
\* when it is more than 10 s past it; no found chime is played.
\* ------------------------------------------------------------------------
C5_SearchTimeout ==
    (SearchTick /\ ~last.human) =>
        /\ (last.t - search_start_time <= SearchTimeout) =>
               (Flags = last.pre /\ Index(trace, stop) = 0)
        /\ (last.t - search_start_time > SearchTimeout) =>
               (Flags = Idle /\ MotionFrames(trace)[Len(MotionFrames(trace))] = stop)
        /\ Count(trace, found_alert[2]) = 0
        /\ alerts.found = 0

\* The search started by the first command has run through a tick less than
\* 10 s after it and is ended by the timeout, with nobody detected, on the
\* tick whose check comes 10.1 s after the command.
C5_Witness ==
    /\ SearchTick /\ ~last.human
    /\ search_start_time \in BootClocks
    /\ last.t - search_start_time = SearchTimeout + 1
    /\ Flags = Idle /\ TimeoutStop(trace) /\ last_motion = stop
    /\ alerts.found = 0

\* ------------------------------------------------------------------------
\* C6  Seek: a seek tick on which obstacle_detected() is false sends the
\* forward frame and stays in seek, however long the seek has lasted; one on
\* which it is true sends forward, stop and the success chime once and ends
\* with no flag set; between two commands at most one success chime is
\* played, and once it is played the ticks that follow send no frame.
\* ------------------------------------------------------------------------
C6_Seek ==
    /\ (SeekTick /\ ~last.obstacle) =>
           /\ Flags = SeekForward
           /\ Frames(trace) = <<send_command(137, <<0, 200, 128, 0>>)>>
           /\ alerts.success = 0
    /\ (SeekTick /\ last.obstacle) =>
           /\ Flags = Idle
           /\ Frames(trace) = <<send_command(137, <<0, 200, 128, 0>>), stop>> \o success_alert
           /\ alerts.success = 1
    /\ alerts.success <= 1
    /\ alerts.success = 1 => ~seeking_forward
    /\ (alerts.success = 1 /\ last.act = "iterate" /\ ~last.pre[3])
           => Frames(trace) = <<>>

\* The obstacle is met on a tick later than the one that took the command,
\* after a tick that drove forward.
C6_Witness ==
    /\ SeekTick /\ last.obstacle
    /\ last.msgs = 0
    /\ last.t >= 94
    /\ search_start_time = None

\* ------------------------------------------------------------------------
\* C7  Manual override with no stale timer: a recognized command handled
\* during a search or a seek sets the flags of its own behaviour at once; a
\* tick that starts with no search flag sends no search frame, no found
\* chime and no timeout stop; a timeout stop is sent only by a tick that
\* starts in a search, more than 10 s after the last search command.
\* ------------------------------------------------------------------------
C7_NoStaleTimer ==
    /\ (last.act = "message" /\ last.payload \in Recognized /\ last.pre # Idle) =>
           Flags = <<last.payload = "search_left", last.payload = "search_right",
                     last.payload = "seek_forward">>
    /\ (last.act = "iterate" /\ ~(last.pre[1] \/ last.pre[2])) =>
           /\ Count(trace, drive_left) = 0
           /\ Count(trace, drive_right) = 0
           /\ Count(trace, found_alert[2]) = 0
           /\ ~TimeoutStop(trace)
    /\ (last.act = "iterate" /\ TimeoutStop(trace)) =>
           /\ last.pre[1] \/ last.pre[2]
           /\ search_cmd_time # None
           /\ last.t - search_cmd_time > SearchTimeout

\* A search replaced by a newer search runs on, with no timeout stop, through
\* a tick more than 10 s after the start of the replaced one.
C7_Witness ==
    /\ SearchTick
    /\ superseded > 0
    /\ last.t - superseded > SearchTimeout
    /\ Flags = last.pre
    /\ ~TimeoutStop(trace)

\* ------------------------------------------------------------------------
\* C8  SearchSession lifetime.  As claimed: a recorded start time and
\* direction exist if and only if a search flag is set.
\* ------------------------------------------------------------------------
C8_SessionIffSearching ==
    (search_start_time # None /\ search_direction # "None")
        <=> (searching_left \/ searching_right)

\* C8 as amended: while a search flag is set the recorded direction is that
\* of the flag and a start time is recorded; the two are written by the
\* search commands only, so that human detection, timeout and superseding
\* commands leave them as they are.
C8_SessionOutlivesSearch ==
    [][/\ searching_left' => (search_direction' = "left" /\ search_start_time' # None)
       /\ searching_right' => (search_direction' = "right" /\ search_start_time' # None)
       /\ (last'.act = "message" /\ last'.payload = "search_left")
           => (searching_left' /\ search_start_time' = last'.t)
       /\ (last'.act = "message" /\ last'.payload = "search_right")
           => (searching_right' /\ search_start_time' = last'.t)
       /\ ~(last'.act = "message" /\ last'.payload \in SearchCommands)
           => UNCHANGED <<search_start_time, search_direction>>]_vars

\* The session of a search ended by a timeout is still recorded.
C8_Witness ==
    /\ SearchTick /\ TimeoutStop(trace)
    /\ Flags = Idle
    /\ search_start_time # None /\ search_direction = "right"

\* ------------------------------------------------------------------------
\* C9  Transitions per tick.  As claimed: by the end of a loop iteration
\* (here one that took at most one command) the flags have changed at most
\* once in it.
\* ------------------------------------------------------------------------
C9_OneTransitionPerTick == (TickDone /\ last.msgs <= 1) => transitions <= 1

\* C9 as amended: in one iteration the messages are handled before the
\* sensors are looked at; each message changes the flags at most once and
\* the sensor-driven part changes them at most once more.
C9_OneSensorTransitionPerTick ==
    /\ last.act = "message" =>
           /\ last.changes <= 1
           /\ transitions <= batch
           /\ batch = last.msgs + 1
           /\ \A i \in 1..Len(trace) : trace[i].k = "uart"
    /\ last.act = "iterate" =>
           /\ last.changes <= 1
           /\ transitions <= last.msgs + 1
           /\ pc = "loop" => batch = 0

\* A search command and the detection that ends the search, in one iteration.
C9_Witness ==
    /\ TickDone /\ last.human
    /\ last.msgs = 1
    /\ transitions = 2

\* ------------------------------------------------------------------------
\* C10  Unrecognized payloads are no-ops: handling a payload outside the
\* vocabulary changes none of the five globals and sends no frame.
\* ------------------------------------------------------------------------
C10_UnrecognizedNoOp ==
    [][(last'.act = "message" /\ last'.payload \notin
            {"forward", "backward", "left", "right", "stop",
             "search_left", "search_right", "seek_forward"})
        => /\ UNCHANGED <<searching_left, searching_right, seeking_forward,
                          search_start_time, search_direction>>
           /\ trace' = <<>>]_vars

\* "STOP" has just been handled during a seek, which goes on.
C10_Witness ==
    /\ last.act = "message" /\ last.payload = "STOP"
    /\ last.pre = SeekForward
    /\ seeking_forward

\* ------------------------------------------------------------------------
\* C11  Stop is idempotent: in every reachable state, handling stop once and
\* handling it again give the same globals, with the flags false, and each
\* handling sends the one stop frame and nothing else; a stop that was
\* handled has done just that.
\* ------------------------------------------------------------------------
C11_StopIdempotent ==
    /\ LET once == handle_roomba_steering(Globals, "stop", now)
           twice == handle_roomba_steering(once.g, "stop", now)
       IN /\ twice.g = once.g
          /\ FlagsOf(once.g) = Idle
          /\ once.out = <<stop>>
          /\ twice.out = <<stop>>
    /\ (last.act = "message" /\ last.payload = "stop") =>
           /\ Flags = Idle
           /\ trace = <<stop>>
           /\ alerts = [found |-> 0, success |-> 0]

\* A stop has been handled in a state where no flag was set any more, after
\* a search had been started, and has sent its stop frame.
C11_Witness ==
    /\ last.act = "message" /\ last.payload = "stop"
    /\ last.pre = Idle /\ last.changes = 0
    /\ search_direction = "right"
    /\ trace = <<stop>>

\* ------------------------------------------------------------------------
\* C12  Reconnect policy.  As claimed: the except handler calls
\* io.reconnect() only from the third fault in a row on; the first and the
\* second are handled with stop and cool-down alone.
\* ------------------------------------------------------------------------
C12_ReconnectAfterThree ==
    (last.act = "recover" /\ faults < 3) => Count(trace, Reconnect) = 0

\* C12 as amended: the except handler calls io.reconnect() once after every
\* fault, the first one included, after the stop and the cool-down.
C12_ReconnectEveryFault ==
    last.act = "recover" =>
        /\ faults >= 1
        /\ Count(trace, Reconnect) = 1
        /\ Index(trace, stop) = 1
        /\ Index(trace, Sleep(CoolDown)) = 2
        /\ Index(trace, Reconnect) = 3

\* The except handler has run for the second fault in a row.
C12_Witness ==
    /\ last.act = "recover"
    /\ faults = 2
    /\ Count(trace, Reconnect) = 1

\* ------------------------------------------------------------------------
\* C13  The fresh-sample flag is always cleared: a seek tick whose query
\* found data_ready set (and so read the distance) has called
\* clear_interrupt, whatever it returned, and leaves no sample waiting.
\* ------------------------------------------------------------------------
C13_ReadyAlwaysCleared ==
    (SeekTick /\ Count(trace, ReadDistance) > 0) =>
        /\ Count(trace, ClearInterrupt) = 1
        /\ Index(trace, ClearInterrupt) > Index(trace, ReadDistance)
        /\ ~vl53_ready

\* ------------------------------------------------------------------------
\* C14  Obstacle threshold: the query of a seek tick returns true exactly
\* when a sample was ready and that sample, a distance in millimetres, is at
\* most 40; with no sample ready it returns false.
\* ------------------------------------------------------------------------
C14_ObstacleThreshold ==
    (SeekTick /\ vl53_distance # None) =>
        (last.obstacle <=> (Count(trace, ReadDistance) > 0 /\ vl53_distance <= ObstacleThreshold))

\* ------------------------------------------------------------------------
\* C15  Sensor evaluation skipped after a command: the loop iteration that
\* ingested a recognized command makes no sensor query and emits no
\* autonomous drive frame.
\* ------------------------------------------------------------------------
C15_SkippedAfterCommand ==
    [][(last.act = "message" /\ last.payload \in Recognized /\ last'.act = "iterate") =>
          /\ Count(trace', ReadPixels) = 0
          /\ Count(trace', ReadReady) = 0
          /\ \A i \in 1..Len(trace') : trace'[i] \notin DriveFrames]_vars

\* C15, as the code has it: the handler of search_left, search_right and
\* seek_forward emits no motion frame, and the rest of the same loop
\* iteration emits the behaviour's drive frame and queries its sensor.
C15_EvaluatedSameIteration ==
    [][(last.act = "message" /\ last.payload \in SearchCommands \cup {"seek_forward"}) =>
          /\ MotionFrames(trace) = <<>>
          /\ last'.act = "iterate" =>
                /\ last.payload = "search_left" =>
                      trace'[1] = drive_left /\ trace'[2] = ReadPixels
                /\ last.payload = "search_right" =>
                      trace'[1] = drive_right /\ trace'[2] = ReadPixels
                /\ last.payload = "seek_forward" =>
                      trace'[1] = drive_forward /\ trace'[2] = ReadReady]_vars

\* A loop iteration has ingested seek_forward with no flag set, and has then
\* driven forward and queried the distance sensor before it ended.
C15_Witness ==
    /\ TickDone /\ last.msgs = 1 /\ last_cmd = "seek_forward"
    /\ last.pre = SeekForward /\ last.changes = 0 /\ transitions = 1
    /\ trace[1] = drive_forward /\ trace[2] = ReadReady

\* ------------------------------------------------------------------------
\* C16  Detection and timeout are alternatives: a search tick on which a
\* human was detected does not take the timeout branch, so it emits exactly
\* one search drive frame, exactly one stop frame and the found alert.
\* ------------------------------------------------------------------------
C16_DetectionExcludesTimeout ==
    (SearchTick /\ last.human) =>
        /\ trace[1] \in {drive_left, drive_right}
        /\ Len(MotionFrames(trace)) = 2
        /\ Count(trace, stop) = 1
        /\ ~TimeoutStop(trace)
        /\ Count(trace, found_alert[2]) = 1

\* C16, as the code has it: the timeout check follows the detection check
\* and does not depend on it.  A search tick on which a human was detected
\* emits one drive frame, a stop and the found alert, and ends with no flag
\* set; when more than 10 s have passed since a start time other than 0 it
\* takes the timeout branch as well, which emits a second stop.
C16_DetectionThenTimeout ==
    (SearchTick /\ last.human) =>
        /\ trace[1] \in {drive_left, drive_right}
        /\ SubSeq(trace, 2, 5) = <<ReadPixels, stop>> \o found_alert
        /\ trace[6] = Sleep(SearchSleep)
        /\ Flags = Idle
        /\ TimeoutStop(trace) <=>
               (Truthy(search_start_time) /\ last.t - search_start_time > SearchTimeout)
        /\ Count(trace, stop) = IF TimeoutStop(trace) THEN 2 ELSE 1
        /\ Len(MotionFrames(trace)) = 1 + Count(trace, stop)
        /\ Count(trace, found_alert[2]) = 1

\* A human was detected on a search tick that came more than 10 s after the
\* search command: the tick has sent the stop twice.
C16_Witness ==
    /\ SearchTick /\ last.human
    /\ last.t - search_start_time > SearchTimeout
    /\ Count(trace, stop) = 2
    /\ alerts.found = 1

\* ------------------------------------------------------------------------
\* C17  No terminal state: after every loop-level fault the control loop
\* comes to execute another tick, also when the fault is raised by the
\* recovery itself; so the program is never past its loop, where no tick can
\* follow, and a recovery that has run has always returned to the loop.
\* ------------------------------------------------------------------------
C17_NoTerminalState ==
    /\ pc \in {"loop", "except"}
    /\ last.act = "recover" => pc = "loop"

\* ------------------------------------------------------------------------
\* C18  Fault recovery leaves the behaviour state untouched: the except
\* handler changes none of the five globals and sends a stop; the loop
\* iteration that follows it starts with the drive frame of the search or
\* seek that was active; and the clock moves on by the cool-down while the
\* start time stays, so the cool-down counts against the 10 s cap.
\* ------------------------------------------------------------------------
C18_RecoveryKeepsBehaviour ==
    [][/\ last'.act = "recover" =>
            /\ UNCHANGED <<searching_left, searching_right, seeking_forward,
                           search_start_time, search_direction>>
            /\ now' = now + CoolDown
            /\ last_motion' = stop
       /\ (last.act = "recover" /\ last'.act = "iterate") =>
            /\ searching_left => trace'[1] = drive_left
            /\ searching_right => trace'[1] = drive_right
            /\ seeking_forward => trace'[1] = drive_forward
            /\ (Flags # Idle /\ Flags' = Flags) => last_motion' \in DriveFrames]_vars

\* The first tick after a recovery found the search of before the fault
\* still active and drove left again; its timeout check counted the
\* cool-down, found more than 10 s since the search command and ended the
\* search.
C18_Witness ==
    /\ TickDone /\ last.after = "recover"
    /\ last.pre = SearchLeft /\ trace[1] = drive_left
    /\ search_start_time = search_cmd_time
    /\ last.t - search_start_time > SearchTimeout
    /\ last.t - search_start_time - CoolDown <= SearchTimeout
    /\ TimeoutStop(trace) /\ Flags = Idle

\* ------------------------------------------------------------------------
\* C19  Idle means stopped: after boot and at the end of every tick that
\* completes without a fault, if no flag is set then the last motion frame
\* sent is the stop, unless the last recognized command was forward,
\* backward, left or right, and then it is that direction's drive frame;
\* before the first command the last motion frame is the boot stop.
\* ------------------------------------------------------------------------
C19_IdleMeansStopped ==
    /\ last.act = "boot" => (MotionFrames(trace) = <<stop>> /\ last_motion = stop)
    /\ last_cmd = "" => last_motion = stop
    /\ ((last.act = "boot" \/ TickDone) /\ Flags = Idle) =>
           last_motion = IF last_cmd \in ManualCommands
                         THEN ManualFrame(last_cmd) ELSE stop

\* C19, as the code has it: a fault recovery sends a stop and a manual drive
\* is not taken up again after it.  With no flag set at the end of a tick,
\* the last motion frame is the stop or, after a manual command, that
\* command's drive frame; a manual command leaves its drive frame; a tick
\* with no flag set sends no motion frame; a tick that ends a search or a
\* seek ends on a stop; a recovery leaves the stop; and before the first
\* command every motion frame is a stop.
C19_IdleStoppedUnlessManual ==
    /\ [](last.act = "boot" => (MotionFrames(trace) = <<stop>> /\ last_motion = stop))
    /\ [](last_cmd = "" =>
            (last_motion = stop /\ \A i \in 1..Len(MotionFrames(trace)) :
                                       MotionFrames(trace)[i] = stop))
    /\ []((TickDone /\ Flags = Idle) =>
            \/ last_motion = stop
            \/ last_cmd \in ManualCommands /\ last_motion = ManualFrame(last_cmd))
    /\ [][/\ (last'.act = "message" /\ last'.payload \in ManualCommands) =>
               (Flags' = Idle /\ last_motion' = ManualFrame(last'.payload))
          /\ (last'.act = "iterate" /\ Flags = Idle) =>
               (Flags' = Idle /\ last_motion' = last_motion
                /\ MotionFrames(trace') = <<>>)
          /\ (last'.act = "iterate" /\ Flags # Idle /\ Flags' = Idle) =>
               last_motion' = stop
          /\ last'.act = "recover" => last_motion' = stop]_vars

\* A tick has completed with no flag set after the command forward and a
\* fault recovery: the last motion frame is the stop of the recovery.
C19_Witness ==
    /\ TickDone /\ last.after = "recover"
    /\ Flags = Idle /\ last.pre = Idle
    /\ last_cmd = "forward" /\ last_motion = stop

\* ------------------------------------------------------------------------
\* C20  A search command restarts the time cap and starts without braking:
\* handled in any state, search_left or search_right sets the start time to
\* the current time and the direction to the commanded one and sends no
\* frame; the timeout check of a search tick counts from the latest search
\* command only, so a tick within 10 s of it that detects nobody keeps the
\* search running, however long ago an earlier search was started.
\* ------------------------------------------------------------------------
C20_SearchRestartsCap ==
    /\ (last.act = "message" /\ last.payload \in SearchCommands) =>
           /\ search_start_time = now /\ search_start_time = last.t
           /\ search_direction = (IF last.payload = "search_left" THEN "left" ELSE "right")
           /\ Flags = (IF last.payload = "search_left" THEN SearchLeft ELSE SearchRight)
           /\ trace = <<>>
    /\ SearchTick =>
           /\ search_start_time = search_cmd_time
           /\ TimeoutStop(trace) => last.t - search_cmd_time > SearchTimeout
           /\ (~last.human /\ last.t - search_cmd_time <= SearchTimeout) =>
                  /\ Flags = last.pre
                  /\ MotionFrames(trace) \in {<<drive_left>>, <<drive_right>>}
                  /\ last_motion \in {drive_left, drive_right}

\* A search tick has run more than 10 s after the start of a search that a
\* later search command replaced, and within 10 s of that command: nobody
\* was detected and the search goes on.
C20_Witness ==
    /\ SearchTick /\ ~last.human
    /\ Truthy(superseded) /\ last.t - superseded > SearchTimeout
    /\ last.t - search_cmd_time <= SearchTimeout
    /\ Flags = last.pre /\ ~TimeoutStop(trace)
    /\ last_motion \in {drive_left, drive_right}

====
